---- MODULE Spec2Model ----
(***************************************************************************)
(* State-machine model of GeminiSessionManager                             *)
(* (src/src/gemini-session-manager.ts): one session controller instance,   *)
(* its start/stop lifecycle, and the sendPrompt calls made on it.          *)
(*                                                                         *)
(* Scheduling: JavaScript runs one task at a time, so every action below   *)
(* is the code between two suspension points (an await, or one pull of the *)
(* engine's async event sequence) and runs atomically.                     *)
(***************************************************************************)
EXTENDS Integers, Sequences, FiniteSets, TLC

(* ----------------------------- bounds ---------------------------------- *)
\* sendPrompt calls made on the session in one run; they arrive in id order
MaxCalls == 4
\* The work done in one run: every start(), stop() and sendPrompt call, every
\* event a stream yields, every end or failure of a stream and every timeout
\* that fires costs one unit.  The steps in which a suspended start() or a
\* waiting sendPrompt resumes are free: each follows from a step that was paid.
MaxWork == 7
\* the ticks the clock of the timed server runs makes
MaxClock == 3
\* start() invocations that are suspended at the same time: a start() may be
\* called while the ones before it are suspended
MaxStarts == 2

(* ------------------------ program constants ---------------------------- *)
maxContinuations == 3

Calls == 1..MaxCalls
NoCall == 0
Starts == 1..MaxStarts
\* this.config is null or holds the Config made by start() invocation s
\* (lines 60-82); this.client is null or holds the client of that Config
Null == 0
Handle(s) == s

\* another wording of the continuation directive
ContinueTextOther == "Please continue."

\* the fixed continuation directive (line 158)
ContinueText == "Continue."
\* the caller's prompt text of call c
OrigText(c) == "prompt " \o ToString(c)

(* --------------------------- streamed events --------------------------- *)
\* GeminiEventType discriminators, as the switch of lines 171-298 names them
EventTypes ==
    {"Retry", "Content", "Thought", "ToolCallRequest", "ToolCallResponse",
     "ToolCallConfirmation", "Finished", "Error", "ChatCompressed",
     "LoopDetected", "MaxSessionTurns", "UserCancelled", "Citation"}

\* content-delta texts the engine may emit
DeltaTexts == {"", "a", "b"}

\* Event values, one record shape per event type, holding what the switch
\* reads of the payload.  An absent optional string is "", an absent number 0
\* (both are falsy in the code's tests), an absent contentLength is -1.
EvRetry == [type |-> "Retry"]
EvContent(value) == [type |-> "Content", value |-> value]
EvThought(subject, description) ==
    [type |-> "Thought", subject |-> subject, description |-> description]
\* argKeys: Object.keys(args); firstIsString / firstValue: args[argKeys[0]]
EvToolCallRequest(name, argKeys, firstIsString, firstValue) ==
    [type |-> "ToolCallRequest", name |-> name, argKeys |-> argKeys,
     firstIsString |-> firstIsString, firstValue |-> firstValue]
EvToolCallResponse(hasError, errorMessage, errorType, outputFile, contentLength) ==
    [type |-> "ToolCallResponse", hasError |-> hasError,
     errorMessage |-> errorMessage, errorType |-> errorType,
     outputFile |-> outputFile, contentLength |-> contentLength]
\* nArgs: Object.keys(request.args).length, 0 when args is missing
EvToolCallConfirmation(name, nArgs) ==
    [type |-> "ToolCallConfirmation", name |-> name, nArgs |-> nArgs]
EvFinished(reason, hasUsage, promptTokens, totalTokens) ==
    [type |-> "Finished", reason |-> reason, hasUsage |-> hasUsage,
     promptTokens |-> promptTokens, totalTokens |-> totalTokens]
EvError(status, message) ==
    [type |-> "Error", status |-> status, message |-> message]
EvChatCompressed(hasValue, originalTokenCount, newTokenCount, compressionStatus) ==
    [type |-> "ChatCompressed", hasValue |-> hasValue,
     originalTokenCount |-> originalTokenCount,
     newTokenCount |-> newTokenCount,
     compressionStatus |-> compressionStatus]
EvLoopDetected == [type |-> "LoopDetected"]
EvMaxSessionTurns == [type |-> "MaxSessionTurns"]
EvUserCancelled == [type |-> "UserCancelled"]
\* lines: event.value.split('\n'); the text is empty iff lines = <<"">>
EvCitation(lines) == [type |-> "Citation", lines |-> lines]

ContentEvents == {EvContent(d) : d \in DeltaTexts}
ErrorEvents == {EvError(s, "boom") : s \in {"", "503"}}
\* the events the engine emits in the runs explored: every content delta, a
\* fatal error with and without a status, and one event of every other type
StreamEvents ==
    ContentEvents \cup ErrorEvents \cup
    {EvRetry,
     EvThought("Plan", ""),
     EvToolCallRequest("grep", <<>>, FALSE, ""),
     EvToolCallResponse(FALSE, "", "", "", -1),
     EvToolCallConfirmation("grep", 0),
     EvFinished("STOP", FALSE, 0, 0),
     EvChatCompressed(FALSE, 0, 0, ""),
     EvLoopDetected,
     EvMaxSessionTurns,
     EvUserCancelled,
     EvCitation(<<"">>)}

(* ----------------------------- thrown values --------------------------- *)
\* A JavaScript error value: its name and its message.
Err(name, message) == [name |-> name, message |-> message]
NoErr == Err("", "")

SessionNotActiveErr == Err("Error", "Session not active")
UserCancelledErr == Err("Error", "User cancelled")
\* an error named AbortError, the only one line 325 takes for the timeout
AbortErr == Err("AbortError", "This operation was aborted")
\* line 141: the reason AbortSignal.timeout() aborts with, a DOMException
\* named TimeoutError
TimeoutReason == Err("TimeoutError", "The operation was aborted due to timeout")
\* elapsed milliseconds are not modelled
TimeoutErr == Err("Error", "Stream timeout after <elapsed>ms")

\* the status of the fatal error left out of the message
UpstreamErrNoStatus(e) == Err("Error", e.message)

\* lines 254-261: the error raised for a fatal-error event
UpstreamErr(e) ==
    IF e.status # ""
    THEN Err("Error", "API Error " \o e.status \o ": " \o e.message)
    ELSE Err("Error", e.message)

(* ----------------------------- event reducer --------------------------- *)
Min(a, b) == IF a < b THEN a ELSE b

\* the delta put in front of the answer instead of behind it
AppendDeltaPrepended(acc, value) == IF Len(value) > 0 THEN value \o acc ELSE acc

\* lines 176-179: a delta is appended when it has a length
AppendDelta(acc, value) == IF Len(value) > 0 THEN acc \o value ELSE acc

\* String.prototype.substring(0, n)
Substring0(s, n) == SubSeq(s, 1, Min(n, Len(s)))

\* The characters String.prototype.trim() strips that a string of the model
\* can hold: space, tab, line feed, carriage return and form feed, and,
\* written raw, the vertical tab (U+000B), the no-break space (U+00A0), the
\* byte order mark (U+FEFF) and the ogham space mark (U+1680).  trim()
\* strips U+2000 to U+200A, U+2028, U+2029, U+202F, U+205F and U+3000 as
\* well; no string of the model holds them.
WhiteSpace ==
    {" ", "\t", "\n", "\r", "\f", "", " ", "﻿", " "}

\* line.trim() is non-empty: the line holds a character that trim() keeps
TrimNonEmpty(line) ==
    \E i \in 1..Len(line) : SubSeq(line, i, i) \notin WhiteSpace

\* citations.split('\n').filter(line => line.trim()).length
RECURSIVE CountNonBlank(_)
CountNonBlank(lines) ==
    IF lines = <<>> THEN 0
    ELSE (IF TrimNonEmpty(Head(lines)) THEN 1 ELSE 0) + CountNonBlank(Tail(lines))

\* IEEE 754 binary64 arithmetic on positive numbers.  A number is a record
\* [m, e]: m is its significand, 53 bits with the most significant bit (a 1)
\* first, and its value is m * 2^e.
SignificandBits == 53

RECURSIVE BitsToNat(_)
BitsToNat(bits) ==
    IF bits = <<>> THEN 0
    ELSE 2 * BitsToNat(SubSeq(bits, 1, Len(bits) - 1)) + bits[Len(bits)]

RECURSIVE Reverse(_)
Reverse(seq) == IF seq = <<>> THEN <<>> ELSE Append(Reverse(Tail(seq)), Head(seq))

\* bits + 1, with one more bit in front: the carry out of the leading bit
RECURSIVE Increment(_)
Increment(bits) ==
    IF bits = <<>> THEN <<1>>
    ELSE IF bits[Len(bits)] = 0
    THEN <<0>> \o SubSeq(bits, 1, Len(bits) - 1) \o <<1>>
    ELSE Append(Increment(SubSeq(bits, 1, Len(bits) - 1)), 0)

\* Round to nearest, ties to even: kept are the 53 leading bits of the exact
\* result and e the exponent of the last of them, guard is the bit after
\* them and sticky tells whether anything non-zero follows the guard bit.
RoundNearestEven(kept, e, guard, sticky) ==
    IF guard = 1 /\ (sticky \/ kept[Len(kept)] = 1)
    THEN LET r == Increment(kept)
         IN IF r[1] = 1
            THEN [m |-> SubSeq(r, 1, Len(kept)), e |-> e + 1]
            ELSE [m |-> Tail(r), e |-> e]
    ELSE [m |-> kept, e |-> e]

\* den * 2^k for the largest k with den * 2^k <= num (for num >= den)
RECURSIVE ScaleDen(_, _, _)
ScaleDen(num, den, k) ==
    IF 2 * den <= num THEN ScaleDen(num, 2 * den, k + 1) ELSE [x |-> den, k |-> k]
\* num * 2^k for the least k with num * 2^k >= den
RECURSIVE ScaleNum(_, _, _)
ScaleNum(num, den, k) ==
    IF num < den THEN ScaleNum(2 * num, den, k + 1) ELSE [x |-> num, k |-> k]

\* n further bits of the binary expansion of r / den (r < den), followed
\* by the remainder they leave
RECURSIVE DivBits(_, _, _)
DivBits(r, den, n) ==
    IF n = 0 THEN <<r>>
    ELSE LET b == IF 2 * r >= den THEN 1 ELSE 0
         IN <<b>> \o DivBits(2 * r - b * den, den, n - 1)

\* the double nearest to a / b, for integers a > 0 and b > 0
FloatDiv(a, b) ==
    LET up == a >= b
        sd == ScaleDen(a, b, 0)
        sn == ScaleNum(a, b, 0)
        num == IF up THEN a ELSE sn.x
        den == IF up THEN sd.x ELSE b
        k == IF up THEN sd.k ELSE 0 - sn.k
        bits == <<1>> \o DivBits(num - den, den, SignificandBits)
    IN RoundNearestEven(SubSeq(bits, 1, SignificandBits),
                        k - (SignificandBits - 1),
                        bits[SignificandBits + 1],
                        bits[SignificandBits + 2] # 0)

\* bits (least significant first) times the small number n, plus carry
RECURSIVE MulSmall(_, _, _)
MulSmall(bitsLE, n, carry) ==
    IF bitsLE = <<>>
    THEN IF carry = 0 THEN <<>>
         ELSE <<carry % 2>> \o MulSmall(<<>>, n, carry \div 2)
    ELSE LET t == Head(bitsLE) * n + carry
         IN <<t % 2>> \o MulSmall(Tail(bitsLE), n, t \div 2)

\* the double nearest to x * n, for a double x > 0 and an integer n in 2..127
FloatMulSmall(x, n) ==
    LET prod == Reverse(MulSmall(Reverse(x.m), n, 0))
        extra == Len(prod) - SignificandBits
        dropped == SubSeq(prod, SignificandBits + 1, Len(prod))
    IN RoundNearestEven(SubSeq(prod, 1, SignificandBits), x.e + extra,
                        dropped[1],
                        \E i \in 2..Len(dropped) : dropped[i] = 1)

\* Math.round(x) for sign * x, x a double > 0 below 2^31: the nearest
\* integer, a tie going towards +Infinity
MathRound(negative, x) ==
    LET intBits == SignificandBits + x.e
        whole == IF intBits <= 0 THEN 0
                 ELSE IF intBits >= SignificandBits
                 THEN BitsToNat(x.m \o [i \in 1..x.e |-> 0])
                 ELSE BitsToNat(SubSeq(x.m, 1, intBits))
        half == IF intBits < 0 \/ intBits >= SignificandBits THEN 0
                ELSE x.m[intBits + 1]
        below == intBits >= -1 /\ intBits < SignificandBits - 1
                 /\ \E i \in (intBits + 2)..SignificandBits : i >= 1 /\ x.m[i] = 1
    IN IF negative
       THEN 0 - (whole + (IF half = 1 /\ below THEN 1 ELSE 0))
       ELSE whole + half

\* lines 266-267: Math.round((saved / originalTokenCount) * 100), for
\* originalTokenCount > 0
PercentSaved(originalTokenCount, newTokenCount) ==
    LET saved == originalTokenCount - newTokenCount
        abs == IF saved < 0 THEN 0 - saved ELSE saved
    IN IF saved = 0 THEN 0
       ELSE MathRound(saved < 0, FloatMulSmall(FloatDiv(abs, originalTokenCount), 100))

\* `${percent}` of line 269: the number, or what a division by zero gives
PercentText(originalTokenCount, newTokenCount) ==
    IF originalTokenCount # 0
    THEN ToString(PercentSaved(originalTokenCount, newTokenCount))
    ELSE IF originalTokenCount = newTokenCount THEN "NaN"
    ELSE IF newTokenCount < 0 THEN "Infinity" ELSE "-Infinity"

\* a break that loses the answer accumulated so far
StepDropsAnswer(acc, notes) == [acc |-> "", notes |-> notes, thrown |-> NoErr]

\* a case of the switch that ends with break
Step(acc, notes) == [acc |-> acc, notes |-> notes, thrown |-> NoErr]
Throw(acc, notes, err) == [acc |-> acc, notes |-> notes, thrown |-> err]

\* lines 183-191
NoteThought(e) ==
    IF e.description # ""
    THEN <<"Thinking: " \o e.subject \o " - "
            \o Substring0(e.description, 50) \o "...">>
    ELSE <<"Thinking: "
            \o (IF e.subject # "" THEN e.subject ELSE "Processing...")>>

\* lines 193-208
NoteToolCallRequest(e) ==
    IF Len(e.argKeys) > 0
    THEN IF e.firstIsString /\ Len(e.firstValue) < 50
         THEN <<"Using tool: " \o e.name \o "(" \o e.argKeys[1] \o ": \""
                 \o e.firstValue \o "\")">>
         ELSE <<"Using tool: " \o e.name \o "("
                 \o ToString(Len(e.argKeys)) \o " args)">>
    ELSE <<"Using tool: " \o e.name \o "()">>

\* lines 210-226
NoteToolCallResponse(e) ==
    IF e.hasError
    THEN IF e.errorType # ""
         THEN <<"Tool failed (" \o e.errorType \o "): " \o e.errorMessage>>
         ELSE <<"Tool failed: " \o e.errorMessage>>
    ELSE IF e.outputFile # ""
    THEN <<"Tool completed: wrote to " \o e.outputFile>>
    ELSE IF e.contentLength # -1
    THEN <<"Tool completed (" \o ToString(e.contentLength) \o " bytes)">>
    ELSE <<"Tool completed">>

\* lines 228-236
NoteToolCallConfirmation(e) ==
    IF e.nArgs > 0
    THEN <<"Confirming tool: " \o e.name \o " with "
            \o ToString(e.nArgs) \o " args">>
    ELSE <<"Confirming tool: " \o e.name>>

\* lines 238-252: with usage metadata that lacks a token count nothing is sent
NoteFinished(e) ==
    IF e.hasUsage
    THEN IF e.totalTokens # 0 /\ e.promptTokens # 0
         THEN <<"Finished (" \o ToString(e.promptTokens) \o " prompt + "
                 \o ToString(e.totalTokens - e.promptTokens)
                 \o " response tokens)">>
         ELSE <<>>
    ELSE IF e.reason # "" /\ e.reason # "STOP"
    THEN <<"Finished: " \o e.reason>>
    ELSE <<"Finished">>

\* lines 263-277
NoteChatCompressed(e) ==
    IF ~e.hasValue THEN <<>>
    ELSE IF e.compressionStatus = "COMPRESSED"
    THEN <<"Chat compressed: " \o ToString(e.originalTokenCount) \o " -> "
            \o ToString(e.newTokenCount) \o " tokens ("
            \o PercentText(e.originalTokenCount, e.newTokenCount)
            \o "% saved)">>
    ELSE IF e.compressionStatus = "COMPRESSION_FAILED_INFLATED_TOKEN_COUNT"
    THEN <<"Chat compression failed: would increase tokens">>
    ELSE IF e.compressionStatus = "COMPRESSION_FAILED_TOKEN_COUNT_ERROR"
    THEN <<"Chat compression failed: token count error">>
    ELSE <<>>

\* lines 291-297
NoteCitation(e) ==
    IF e.lines = <<"">> THEN <<>>
    ELSE <<"Found " \o ToString(CountNonBlank(e.lines) - 1) \o " citations">>

\* the cancellation handled like the other notices: a break, no throw
OnUserCancelledBreaks(acc) == Step(acc, <<"Cancelled by user">>)

\* lines 287-289
OnUserCancelled(acc) == Throw(acc, <<"Cancelled by user">>, UserCancelledErr)

\* The switch of lines 171-298 for one event, with the answer accumulated so
\* far: the new accumulated answer, the progress messages handed to
\* onProgress (none or one), and the error the event throws (NoErr: none).
Reduce(e, acc) ==
    CASE e.type = "Retry" -> Step(acc, <<"Retrying...">>)
      [] e.type = "Content" ->
           LET a == AppendDelta(acc, e.value)
           IN Step(a, <<"Responding... (" \o ToString(Len(a)) \o " chars)">>)
      [] e.type = "Thought" -> Step(acc, NoteThought(e))
      [] e.type = "ToolCallRequest" -> Step(acc, NoteToolCallRequest(e))
      [] e.type = "ToolCallResponse" -> Step(acc, NoteToolCallResponse(e))
      [] e.type = "ToolCallConfirmation" -> Step(acc, NoteToolCallConfirmation(e))
      [] e.type = "Finished" -> Step(acc, NoteFinished(e))
      [] e.type = "Error" -> Throw(acc, <<>>, UpstreamErr(e))
      [] e.type = "ChatCompressed" -> Step(acc, NoteChatCompressed(e))
      [] e.type = "LoopDetected" ->
           Step(acc, <<"Loop detected - stopping to prevent infinite cycle">>)
      [] e.type = "MaxSessionTurns" ->
           Step(acc, <<"Max session turns reached - please start a new session">>)
      [] e.type = "UserCancelled" -> OnUserCancelled(acc)
      [] e.type = "Citation" -> Step(acc, NoteCitation(e))
      [] OTHER -> Step(acc, <<>>)

(* ------------------------- tool invocations ---------------------------- *)
\* inbound tool invocations handled in one run; they arrive in id order
MaxRequests == 2
Requests == 1..MaxRequests

\* request.params.name: the handler takes any name (line 168), also one that
\* is not among the tools listed
ToolNames == {"gemini_plan", "gemini_plan:a"}

\* request.params.arguments: present is the arguments object being there,
\* hasSessionId the session_id property being there.  The prompt is a string.
Args(present, prompt, hasSessionId, session_id) ==
    [present |-> present, prompt |-> prompt,
     hasSessionId |-> hasSessionId, session_id |-> session_id]
NoArgs == Args(FALSE, "", FALSE, "")

\* the arguments of the runs explored: none, an empty prompt, and a prompt
\* with no session id, an empty one, "b" and "a:b"
ArgChoices ==
    {NoArgs, Args(TRUE, "", FALSE, "")} \cup
    {Args(TRUE, "hi", FALSE, "")} \cup
    {Args(TRUE, "hi", TRUE, sid) : sid \in {"", "b", "a:b"}}

\* a schema without the minimum length of the prompt
ValidationIssuesNone(args) == ""

\* lines 20-24 and 176: toolArgsSchema.parse; the issues of a failed parse
\* joined as line 238 joins them ("" when the arguments are valid)
ValidationIssues(args) ==
    IF Len(args.prompt) < 1 THEN "prompt: Prompt is required" ELSE ""

\* line 179: session_id || 'default'
UserSessionId(args) ==
    IF args.hasSessionId /\ args.session_id # "" THEN args.session_id
    ELSE "default"

\* line 183
SessionKey(name, args) == name \o ":" \o UserSessionId(args)

SessionKeys == {SessionKey(n, a) : n \in ToolNames, a \in ArgChoices}

NoController == 0
\* no invocation (a controller's _pending is null)
NoRequest == 0
\* no time (a controller's sessionState is null)
NoTime == 0 - 1

\* AGENT_MODEL is not set (entry point, line 13)
Model == "gemini-2.5-flash"

\* lines 459-473
FormatErrorResponse(message, context) ==
    "## Error: " \o message \o " ... **Context:** " \o context

\* What an invocation has produced: nothing yet, a success result (lines
\* 218-231), an error payload (lines 239-264), or an error raised out of
\* the handler.
NoResult == [kind |-> "none"]
Success(text, session_id, tool) ==
    [kind |-> "result", isError |-> FALSE, text |-> text,
     session_id |-> session_id, tool |-> tool, model |-> Model]
ErrorPayload(text) == [kind |-> "result", isError |-> TRUE, text |-> text]
Raised(message) == [kind |-> "raised", message |-> message]

\* lines 250-264
CommunicationError(name, errorMessage) ==
    ErrorPayload(FormatErrorResponse(
        "Error communicating with Gemini CLI: " \o errorMessage,
        "Tool: " \o name))

\* an invocation that has not arrived
IdleRequest ==
    [pc |-> "idle", name |-> "", args |-> NoArgs, sessionKey |-> "",
     sessionManager |-> NoController, created |-> FALSE, refused |-> FALSE,
     result |-> NoResult]

(* ------------------------------- state --------------------------------- *)
VARIABLES
    config,          \* this.config: Null, or the Config made by the n-th start
    client,          \* this.client: Null, or the engine handle of the n-th start
    sessionState,    \* this.sessionState
    pending,         \* this._pending: NoCall, or the call whose promise it holds
    pendingResolve,  \* this._pendingResolve: NoCall, or the call whose promise it resolves
    settled,         \* the calls whose pending promise has been resolved
    starter,         \* per start() invocation: where it is suspended, how it ended
    frames,          \* per sendPrompt call: its position and local variables
    aborted,         \* the abort signals whose timeout has fired
    history,         \* per call: the engine calls it made and how each attempt ended
    opened,          \* the calls in the order in which they opened their first stream
    sink,            \* what the last step handed to its onProgress
    consumed,        \* the event the last step took from a stream, and for which call
    lastOp,          \* the operation the last step belongs to
    stopped,         \* stop() was called since the last start() began
    activated,       \* a start() completed and no stop() was called since it began
    other,           \* the pending-submission token of a second, active session
    sessions,        \* MCPServer.sessions: session key -> controller (0: no entry)
    controllers,     \* the controllers the session factory has made, in order
    requests,        \* per inbound tool invocation: its position, locals and result
    shutdown,        \* MCPServer.cleanup(): where it is suspended
    clock,           \* the time, in ticks
    accessed,        \* the last call of a history accessor and its outcome
    work             \* the work done so far

vars == <<config, client, sessionState, pending, pendingResolve, settled,
          starter, frames, aborted, history, opened, sink, consumed, lastOp,
          stopped, activated, other, sessions, controllers, requests,
          shutdown, clock, accessed, work>>

\* Timestamps are named by the operation that took them: "start" for the
\* start() that recorded the state, <<"sendPrompt", c>> for call c.
NoSessionState == [present |-> FALSE, isActive |-> FALSE,
                   createdAt |-> <<"none", 0>>, lastActivity |-> <<"none", 0>>]

\* a start() invocation that has not been made; stopped tells whether
\* stop() was called while the invocation was suspended
IdleStarter == [pc |-> "idle", systemInstruction |-> FALSE, result |-> "none",
                thrown |-> NoErr, stopped |-> FALSE]

\* a sendPrompt call that has not been made
IdleFrame ==
    [pc |-> "idle", awaiting |-> NoCall, prompt |-> "", onProgress |-> FALSE,
     abortSignal |-> <<NoCall, 0>>, promptTime |-> 0, promptId |-> "",
     attempt |-> 0,
     accumulatedResponse |-> "", returned |-> "", thrown |-> NoErr]

\* What a call has done: its engine calls, how its finished attempts ended,
\* the deltas and the number of events of its current attempt, and the abort
\* signals it has made.
NoHistory == [engineCalls |-> <<>>, attempts |-> <<>>, deltas |-> <<>>,
              events |-> 0, signals |-> 0]

\* How one attempt ended: the deltas and the number of events its stream
\* yielded, and "end" (the stream ran out), the type of the event that threw,
\* the name of the error the engine raised, or "nohandle" (no stream was
\* opened).
AttemptEnd(h, end) == [deltas |-> h.deltas, events |-> h.events, end |-> end]

NoSink == [call |-> NoCall, notes |-> <<>>]
NoEvent == [call |-> NoCall, event |-> [type |-> "none"]]

\* A second GeminiSessionManager instance, as far as its own _pending field
\* goes (lines 21-22 are instance fields): pending is its _pending being set,
\* inFlight its one submission being between admission and termination.
\* no history accessor has been called
NoAccess == [op |-> "none", outcome |-> "none", thrown |-> NoErr]
OtherFree == [pending |-> FALSE, inFlight |-> FALSE]

Init ==
    /\ config = Null
    /\ client = Null
    /\ sessionState = NoSessionState
    /\ pending = NoCall
    /\ pendingResolve = NoCall
    /\ settled = {}
    /\ starter = [s \in Starts |-> IdleStarter]
    /\ frames = [c \in Calls |-> IdleFrame]
    /\ aborted = {}
    /\ history = [c \in Calls |-> NoHistory]
    /\ opened = <<>>
    /\ sink = NoSink
    /\ consumed = NoEvent
    /\ lastOp = "none"
    /\ stopped = FALSE
    /\ activated = FALSE
    /\ other = OtherFree
    /\ sessions = [k \in SessionKeys |-> NoController]
    /\ controllers = <<>>
    /\ requests = [r \in Requests |-> IdleRequest]
    /\ shutdown = "idle"
    /\ clock = 0
    /\ accessed = NoAccess
    /\ work = 0

(* ----------------------------- lifecycle -------------------------------- *)
\* lines 364-370
isActive ==
    /\ config # Null
    /\ client # Null
    /\ sessionState.present /\ sessionState.isActive

\* lines 397-403: the session state left by cleanup()
CleanupState ==
    IF sessionState.present
    THEN [sessionState EXCEPT !.isActive = FALSE]
    ELSE sessionState

\* a cleanup that forgets the engine handle
cleanupKeepsClient ==
    /\ sessionState' = CleanupState
    /\ client' = client
    /\ config' = Null

cleanup ==
    /\ sessionState' = CleanupState
    /\ client' = Null
    /\ config' = Null

\* a catch block that rethrows without cleaning up
StartFailsNoCleanup(s, err) ==
    /\ UNCHANGED <<config, client, sessionState>>
    /\ UNCHANGED <<stopped, activated>>
    /\ starter' = [starter EXCEPT ![s].pc = "idle",
                                   ![s].systemInstruction = FALSE,
                                   ![s].result = "threw", ![s].thrown = err]

\* lines 112-116: the catch block of start()
StartFails(s, err) ==
    /\ cleanup
    /\ UNCHANGED <<stopped, activated>>
    /\ starter' = [starter EXCEPT ![s].pc = "idle",
                                   ![s].systemInstruction = FALSE,
                                   ![s].result = "threw", ![s].thrown = err]

\* no step of a session controller touches the server
ServerUnchanged ==
    UNCHANGED <<sessions, controllers, requests, shutdown, clock>>

\* no history accessor is called
AccessUnchanged == UNCHANGED accessed

CallUnchanged ==
    /\ UNCHANGED <<pending, pendingResolve, settled, frames, aborted, history,
                   opened, other>>
    /\ ServerUnchanged
    /\ AccessUnchanged

\* a step that takes no event from a stream and calls no onProgress
Quiet == sink' = NoSink /\ consumed' = NoEvent

\* start() invocation s is suspended at one of its awaits
Suspended(s) == starter[s].pc # "idle"
\* a new invocation takes the first record that holds no suspended one
NextStart(s) == ~Suspended(s) /\ \A t \in Starts : t < s => Suspended(t)
\* the records when invocation s is called and becomes r: the suspended
\* invocations stay as they are, and the outcomes of the finished ones are
\* dropped, so that the records tell how the invocations ended that have
\* finished since the latest call of start()
RecordsAfterCall(s, r) ==
    [t \in Starts |-> IF t = s THEN r
                      ELSE IF Suspended(t) THEN starter[t] ELSE IdleStarter]

\* start() without the test of lines 52-55
StartCallUnguarded(s, systemInstruction) ==
    /\ NextStart(s)
    /\ work < MaxWork
    /\ work' = work + 1
    /\ lastOp' = "start"
    /\ starter' = RecordsAfterCall(s, [pc |-> "initialize",
                              systemInstruction |-> systemInstruction,
                              result |-> "none", thrown |-> NoErr,
                              stopped |-> FALSE])
    /\ config' = Handle(s)
    /\ stopped' = FALSE
    /\ UNCHANGED <<client, sessionState, activated>>
    /\ Quiet
    /\ CallUnchanged

\* lines 51-84: start() up to its first await.  The only test is isActive()
\* (lines 52-55): a start() made while an earlier one is suspended runs like
\* any other, makes a Config of its own and overwrites this.config.
StartCall(s, systemInstruction) ==
    /\ NextStart(s)
    /\ work < MaxWork
    /\ work' = work + 1
    /\ lastOp' = "start"
    /\ IF isActive
       THEN /\ starter' = RecordsAfterCall(s, [IdleStarter EXCEPT !.result = "noop"])
            /\ UNCHANGED <<config, client, sessionState, stopped, activated>>
       ELSE /\ starter' = RecordsAfterCall(s, [pc |-> "initialize",
                                      systemInstruction |-> systemInstruction,
                                      result |-> "none", thrown |-> NoErr,
                                      stopped |-> FALSE])
            /\ config' = Handle(s)
            /\ stopped' = FALSE
            /\ UNCHANGED <<client, sessionState, activated>>
    /\ Quiet
    /\ CallUnchanged

StartInitError == Err("Error", "start step failed")
NullDerefErr == Err("TypeError", "Cannot read properties of null")

\* lines 84-93: config.initialize() has settled; on success refreshAuth is called
StartAfterInitialize(s, ok) ==
    /\ starter[s].pc = "initialize"
    /\ lastOp' = "start"
    /\ IF ~ok THEN StartFails(s, StartInitError)
       ELSE IF config = Null THEN StartFails(s, NullDerefErr)
       ELSE /\ starter' = [starter EXCEPT ![s].pc = "refreshAuth"]
            /\ UNCHANGED <<config, client, sessionState, stopped, activated>>
    /\ Quiet
    /\ UNCHANGED work
    /\ CallUnchanged

\* lines 89-96: refreshAuth has settled; on success the client is taken from
\* the configuration and client.initialize() is called
StartAfterRefreshAuth(s, ok) ==
    /\ starter[s].pc = "refreshAuth"
    /\ lastOp' = "start"
    /\ IF ~ok THEN StartFails(s, StartInitError)
       ELSE IF config = Null THEN StartFails(s, NullDerefErr)
       ELSE /\ client' = config
            /\ starter' = [starter EXCEPT ![s].pc = "clientInitialize"]
            /\ UNCHANGED <<config, sessionState, stopped, activated>>
    /\ Quiet
    /\ UNCHANGED work
    /\ CallUnchanged

\* lines 96-97: client.initialize() has settled; on success startChat is called
StartAfterClientInitialize(s, ok) ==
    /\ starter[s].pc = "clientInitialize"
    /\ lastOp' = "start"
    /\ IF ~ok THEN StartFails(s, StartInitError)
       ELSE IF client = Null THEN StartFails(s, NullDerefErr)
       ELSE /\ starter' = [starter EXCEPT ![s].pc = "startChat"]
            /\ UNCHANGED <<config, client, sessionState, stopped, activated>>
    /\ Quiet
    /\ UNCHANGED work
    /\ CallUnchanged

\* lines 97-98: startChat() has settled; on success setTools is called
StartAfterStartChat(s, ok) ==
    /\ starter[s].pc = "startChat"
    /\ lastOp' = "start"
    /\ IF ~ok THEN StartFails(s, StartInitError)
       ELSE IF client = Null THEN StartFails(s, NullDerefErr)
       ELSE /\ starter' = [starter EXCEPT ![s].pc = "setTools"]
            /\ UNCHANGED <<config, client, sessionState, stopped, activated>>
    /\ Quiet
    /\ UNCHANGED work
    /\ CallUnchanged

\* lines 98-111: setTools() has settled; on success the system instruction is
\* installed (lines 119-124 throw without a client) and the state is recorded
StartAfterSetTools(s, ok) ==
    /\ starter[s].pc = "setTools"
    /\ lastOp' = "start"
    /\ IF ~ok THEN StartFails(s, StartInitError)
       ELSE IF starter[s].systemInstruction /\ client = Null
       THEN StartFails(s, Err("Error", "Session not started"))
       ELSE /\ sessionState' = [present |-> TRUE, isActive |-> TRUE,
                                createdAt |-> <<"start", 0>>,
                                lastActivity |-> <<"start", 0>>]
            /\ starter' = [starter EXCEPT ![s].pc = "idle",
                                           ![s].systemInstruction = FALSE,
                                           ![s].result = "ok"]
            /\ activated' = ~starter[s].stopped
            /\ UNCHANGED <<config, client, stopped>>
    /\ Quiet
    /\ UNCHANGED work
    /\ CallUnchanged

\* lines 360-362
stop ==
    /\ work < MaxWork
    /\ work' = work + 1
    /\ cleanup
    /\ lastOp' = "stop"
    /\ stopped' = TRUE
    /\ activated' = FALSE
    /\ Quiet
    /\ starter' = [s \in Starts |->
                      IF Suspended(s) THEN [starter[s] EXCEPT !.stopped = TRUE]
                      ELSE starter[s]]
    /\ CallUnchanged

\* the caller awaits each start() before it calls start() again
NoStartSuspended == \A s \in Starts : ~Suspended(s)

(* -------------------------- history accessors --------------------------- *)
\* lines 376-395: getHistory, setHistory and clearHistory
Accessors == {"getHistory", "setHistory", "clearHistory"}
SessionNotStartedErr == Err("Error", "Session not started")

\* an accessor that tests isActive() instead of the handle
HasHandleWhenActive == isActive
\* lines 377, 384, 391: the test each accessor makes
HasHandle == client # Null

\* lines 376-395: one call of an accessor.  Without a handle it throws; with
\* one it hands the call to this.client.getChat() and whatever the engine
\* answers is the caller's outcome.  No field of the controller is written.
Accessor(op) ==
    /\ work < MaxWork
    /\ work' = work + 1
    /\ lastOp' = op
    /\ accessed' = IF HasHandle
                   THEN [op |-> op, outcome |-> "passed", thrown |-> NoErr]
                   ELSE [op |-> op, outcome |-> "threw",
                         thrown |-> SessionNotStartedErr]
    /\ Quiet
    /\ UNCHANGED <<config, client, sessionState, starter, stopped, activated>>
    /\ UNCHANGED <<pending, pendingResolve, settled, frames, aborted, history,
                   opened, other>>
    /\ ServerUnchanged

\* The lifecycle of one session with its accessors: start() and its
\* continuations, stop(), and the three accessors, in any order.
\* The lifecycle of one session under a caller that calls start() and stop()
\* at any time, also while earlier start() invocations are suspended.
NextLifecycle ==
    \/ \E s \in Starts, si \in BOOLEAN : StartCall(s, si)
    \/ \E s \in Starts, ok \in BOOLEAN : StartAfterInitialize(s, ok)
    \/ \E s \in Starts, ok \in BOOLEAN : StartAfterRefreshAuth(s, ok)
    \/ \E s \in Starts, ok \in BOOLEAN : StartAfterClientInitialize(s, ok)
    \/ \E s \in Starts, ok \in BOOLEAN : StartAfterStartChat(s, ok)
    \/ \E s \in Starts, ok \in BOOLEAN : StartAfterSetTools(s, ok)
    \/ stop

SpecLifecycle == Init /\ [][NextLifecycle]_vars

NextAccessors ==
    \/ NextLifecycle
    \/ \E op \in Accessors : Accessor(op)

SpecAccessors == Init /\ [][NextAccessors]_vars

(* ------------------------------ sendPrompt ------------------------------ *)
LifecycleUnchanged ==
    /\ lastOp' = "sendPrompt"
    /\ UNCHANGED <<config, client, starter, stopped, activated, other>>
    /\ ServerUnchanged
    /\ AccessUnchanged

\* a call between its admission (line 138) and its return or throw
InFlight(c) == frames[c].pc = "streaming"
\* the body of the for await loop has thrown (lines 171-298): for await has
\* called stream.return() and awaits it before the exception reaches the
\* catch block; frames[c].thrown is the exception on its way
Closing(c) == frames[c].pc = "closing"
Terminated(c) == frames[c].pc \in {"returned", "threw"}

\* line 141: the abort signal made by the call, once, before its loop
NewAbortSignal(c) == <<c, 0>>
\* line 143: Date.now() at admission, in milliseconds.  The clock does not
\* go back, and it need not have advanced since the admission before: the
\* reading is that of the latest admission or the millisecond after it.
MaxOf(S) ==
    IF S = {} THEN 0
    ELSE LET x == CHOOSE y \in S : \A z \in S : z <= y IN x
LastReading(fs) == MaxOf({fs[c].promptTime : c \in Calls})
DateNow(fs) ==
    IF LastReading(fs) = 0 THEN {1} ELSE {LastReading(fs), LastReading(fs) + 1}

\* line 143: `prompt-${Date.now()}`
NewPromptId(now) == "prompt-" \o ToString(now)

\* a signal of its own for every attempt
SignalArgPerAttempt(fr) == <<fr.abortSignal[1], fr.attempt + 1>>

\* line 164: the abort signal handed to sendMessageStream
SignalArg(fr) == fr.abortSignal

\* the loop test off by one
LoopContinuesOneLess(attempt) == attempt < maxContinuations

\* line 155: the loop test, made with the incremented attempt number
LoopContinues(attempt) == attempt <= maxContinuations

\* the content test off by one
HasContentLong(acc) == Len(acc) > 1

\* line 302: the attempt ended with content
HasContent(acc) == Len(acc) > 0

\* lines 321-331: what the catch block rethrows: an error named AbortError
\* becomes the timeout error, whatever made the engine raise it, and every
\* other error, the signal's own TimeoutError included, is rethrown as it is
CatchBlock(err) == IF err.name = "AbortError" THEN TimeoutErr ELSE err

\* lines 307-310 and 352-355: the token is cleared and its promise resolved
ReleaseToken ==
    /\ pendingResolve' = NoCall
    /\ pending' = NoCall
    /\ settled' = IF pendingResolve # NoCall
                  THEN settled \cup {pendingResolve} ELSE settled

KeepToken == UNCHANGED <<pending, pendingResolve, settled>>

Threw(fr, err) == [fr EXCEPT !.pc = "threw", !.thrown = err]
\* a throw out of the body of for await: the iterator is closed first
ThrewInLoop(fr, err) == [fr EXCEPT !.pc = "closing", !.thrown = err]
Returned(fr, value) == [fr EXCEPT !.pc = "returned", !.returned = value]

\* lines 161-169: one loop iteration up to its first pull of the stream; a
\* null client makes line 162 throw into the catch block
OpenStream(fr, h) ==
    IF client = Null
    THEN [frame |-> Threw(fr, CatchBlock(NullDerefErr)),
          hist |-> [h EXCEPT !.attempts =
                        Append(@, [deltas |-> <<>>, events |-> 0, end |-> "nohandle"])],
          streams |-> FALSE]
    ELSE [frame |-> [fr EXCEPT !.pc = "streaming"],
          hist |-> [h EXCEPT !.engineCalls =
                        Append(@, [text |-> fr.prompt,
                                   abortSignal |-> SignalArg(fr),
                                   promptId |-> fr.promptId]),
                             !.deltas = <<>>,
                             !.events = 0],
          streams |-> TRUE]

\* lines 138-167: the call takes the token, sets up its locals and opens the
\* stream of attempt 0
Admit(c, fr) ==
    \E now \in DateNow(frames) :
    LET f == [fr EXCEPT !.awaiting = NoCall,
                        !.abortSignal = NewAbortSignal(c),
                        !.promptTime = now,
                        !.promptId = NewPromptId(now),
                        !.accumulatedResponse = "",
                        !.attempt = 0]
        o == OpenStream(f, [history[c] EXCEPT !.signals = @ + 1])
    IN /\ pending' = c
       /\ pendingResolve' = c
       /\ UNCHANGED settled
       /\ sessionState' = IF sessionState.present
                          THEN [sessionState EXCEPT
                                    !.lastActivity = <<"sendPrompt", c>>]
                          ELSE sessionState
       /\ frames' = [frames EXCEPT ![c] = o.frame]
       /\ history' = [history EXCEPT ![c] = o.hist]
       /\ opened' = IF o.streams THEN Append(opened, c) ELSE opened

\* a gate that looks at the tokens of both sessions
TokenHeldAnywhere == pending # NoCall \/ other.pending

\* line 135: this session's token is taken
TokenHeld == pending # NoCall

\* lines 126-138: sendPrompt is called; calls are numbered in arrival order.
\* The callers of one run either all pass a progress sink or none does.
sendPrompt(c, onProgress) ==
    /\ frames[c].pc = "idle"
    /\ \A d \in Calls : d < c => frames[d].pc # "idle"
    /\ \A d \in Calls : d < c => frames[d].onProgress = onProgress
    /\ LET fr == [IdleFrame EXCEPT !.prompt = OrigText(c),
                                   !.onProgress = onProgress]
       IN IF ~isActive
          THEN /\ frames' = [frames EXCEPT ![c] = Threw(fr, SessionNotActiveErr)]
               /\ UNCHANGED <<pending, pendingResolve, settled, sessionState,
                              history, opened>>
          ELSE IF TokenHeld
          THEN /\ frames' = [frames EXCEPT
                                ![c] = [fr EXCEPT !.pc = "waiting",
                                                  !.awaiting = pending]]
               /\ UNCHANGED <<pending, pendingResolve, settled, sessionState,
                              history, opened>>
          ELSE Admit(c, fr)
    /\ work < MaxWork
    /\ work' = work + 1
    /\ Quiet
    /\ UNCHANGED aborted
    /\ LifecycleUnchanged

\* line 136 resumes: the awaited promise is resolved.  The reactions of one
\* promise run in the order in which they were registered.
Resume(c) ==
    /\ frames[c].pc = "waiting"
    /\ frames[c].awaiting \in settled
    /\ \A d \in Calls :
          d < c => ~(frames[d].pc = "waiting" /\ frames[d].awaiting = frames[c].awaiting)
    /\ Admit(c, frames[c])
    /\ Quiet
    /\ UNCHANGED <<aborted, work>>
    /\ LifecycleUnchanged

Notify(c, notes) ==
    sink' = IF frames[c].onProgress /\ notes # <<>>
            THEN [call |-> c, notes |-> notes] ELSE NoSink

\* lines 169-299: the stream yields one event.  When its case throws, the
\* call is suspended once more, until the stream is closed.
StreamEvent(c, e) ==
    /\ InFlight(c)
    /\ work < MaxWork
    /\ work' = work + 1
    /\ LET fr == frames[c]
           r == Reduce(e, fr.accumulatedResponse)
           h == history[c]
       IN /\ Notify(c, r.notes)
          /\ consumed' = [call |-> c, event |-> e]
          /\ IF r.thrown # NoErr
             THEN /\ frames' = [frames EXCEPT ![c] = ThrewInLoop(fr, r.thrown)]
                  /\ history' = [history EXCEPT ![c] =
                        [h EXCEPT !.attempts =
                            Append(@, AttemptEnd([h EXCEPT !.events = @ + 1],
                                                 e.type))]]
             ELSE /\ frames' = [frames EXCEPT ![c] =
                        [fr EXCEPT !.accumulatedResponse = r.acc]]
                  /\ history' = [history EXCEPT ![c] =
                        [h EXCEPT !.events = @ + 1,
                                  !.deltas =
                            IF e.type = "Content" THEN Append(@, e.value) ELSE @]]
    /\ KeepToken
    /\ UNCHANGED <<sessionState, aborted, opened>>
    /\ LifecycleUnchanged

\* lines 169 and 321-331: stream.return() has settled (however it settled,
\* the exception of the loop body is what for await throws) and the catch
\* block rethrows
StreamClosed(c) ==
    /\ Closing(c)
    /\ frames' = [frames EXCEPT ![c] =
                     Threw(frames[c], CatchBlock(frames[c].thrown))]
    /\ Quiet
    /\ KeepToken
    /\ UNCHANGED <<sessionState, aborted, history, opened, work>>
    /\ LifecycleUnchanged

\* lines 301-319 and 334-357, then lines 155-167 of the next iteration: the
\* stream has ended
StreamEnd(c) ==
    /\ InFlight(c)
    /\ work < MaxWork
    /\ work' = work + 1
    /\ LET fr == frames[c]
           h == [history[c] EXCEPT !.attempts =
                    Append(@, AttemptEnd(history[c], "end"))]
       IN IF HasContent(fr.accumulatedResponse)
          THEN /\ Notify(c, <<"Complete ("
                     \o ToString(Len(fr.accumulatedResponse)) \o " chars, <elapsed>s)">>)
               /\ ReleaseToken
               /\ frames' = [frames EXCEPT ![c] = Returned(fr, fr.accumulatedResponse)]
               /\ history' = [history EXCEPT ![c] = h]
          ELSE IF LoopContinues(fr.attempt + 1)
          THEN LET o == OpenStream([fr EXCEPT !.attempt = @ + 1,
                                              !.prompt = ContinueText], h)
               IN /\ Notify(c, <<"No content received, requesting continuation ("
                        \o ToString(fr.attempt + 1) \o "/"
                        \o ToString(maxContinuations) \o ")...">>)
                  /\ KeepToken
                  /\ frames' = [frames EXCEPT ![c] = o.frame]
                  /\ history' = [history EXCEPT ![c] = o.hist]
          ELSE /\ Notify(c, <<"Complete (no content after "
                     \o ToString(maxContinuations) \o " retries, <elapsed>s)">>)
               /\ ReleaseToken
               /\ frames' = [frames EXCEPT ![c] = Returned(fr, fr.accumulatedResponse)]
               /\ history' = [history EXCEPT ![c] = h]
    /\ consumed' = NoEvent
    /\ UNCHANGED <<sessionState, aborted, opened>>
    /\ LifecycleUnchanged

\* an exception of the engine that is neither an abort nor a timeout
EngineErr == Err("Error", "fetch failed")

\* what the engine can raise out of the stream
RaisedErrors == {AbortErr, TimeoutReason, EngineErr}

\* the engine raises out of the stream, and the catch block of lines 321-331
\* rethrows.  The engine is free to raise at any point of the stream and for
\* any reason of its own, so an AbortError needs no fired signal; the
\* signal's reason can only be raised once the signal given to the stream
\* has fired.  Whether the engine raises at all after the signal fired is up
\* to the engine: StreamEvent and StreamEnd stay enabled.  The attempt is
\* recorded as ended by the name of an abort or a timeout, and as "raised"
\* otherwise, apart from the attempts that an event of type Error ended.
StreamRaise(c, err) ==
    /\ InFlight(c)
    /\ work < MaxWork
    /\ work' = work + 1
    /\ err = TimeoutReason =>
         history[c].engineCalls[Len(history[c].engineCalls)].abortSignal \in aborted
    /\ frames' = [frames EXCEPT ![c] = Threw(frames[c], CatchBlock(err))]
    /\ history' = [history EXCEPT ![c] =
          [@ EXCEPT !.attempts =
              Append(@, AttemptEnd(history[c],
                                   IF err.name \in {"AbortError", "TimeoutError"}
                                   THEN err.name ELSE "raised"))]]
    /\ KeepToken
    /\ Quiet
    /\ UNCHANGED <<sessionState, aborted, opened>>
    /\ LifecycleUnchanged

\* line 141: the timeout of the call's abort signal fires, while the call
\* is suspended at its stream
TimeoutFires(c) ==
    /\ InFlight(c) \/ Closing(c)
    /\ frames[c].abortSignal \notin aborted
    /\ work < MaxWork
    /\ work' = work + 1
    /\ aborted' = aborted \cup {frames[c].abortSignal}
    /\ Quiet
    /\ UNCHANGED <<sessionState, pending, pendingResolve, settled, frames,
                   history, opened>>
    /\ LifecycleUnchanged

(* --------------------------- a second session --------------------------- *)
\* what a step of the second session leaves alone: all of the first session
OtherSessionStep ==
    /\ lastOp' = "other"
    /\ Quiet
    /\ UNCHANGED <<config, client, sessionState, pending, pendingResolve,
                   settled, starter, frames, aborted, history, opened, stopped,
                   activated>>
    /\ ServerUnchanged
    /\ AccessUnchanged

\* lines 131-138 on the second session, which is active; its callers make
\* one submission at a time
OtherSendPrompt ==
    /\ ~other.pending
    /\ work < MaxWork
    /\ work' = work + 1
    /\ other' = [pending |-> TRUE, inFlight |-> TRUE]
    /\ OtherSessionStep

\* the submission of the second session ends: with a return (lines 301-313,
\* 334-357) its token is released, with a throw (lines 321-331) it is kept
OtherEnds(returns) ==
    /\ other.inFlight
    /\ work < MaxWork
    /\ work' = work + 1
    /\ other' = [pending |-> ~returns, inFlight |-> FALSE]
    /\ OtherSessionStep

(* --------------------------- specification ------------------------------ *)
\* One session whose callers await each start() before they call start()
\* again; stop() and sendPrompt are called at any time.  Calls of start()
\* made while earlier ones are suspended are explored in SpecLifecycle.
Next ==
    \/ \E s \in Starts, si \in BOOLEAN : NoStartSuspended /\ StartCall(s, si)
    \/ \E s \in Starts, ok \in BOOLEAN : StartAfterInitialize(s, ok)
    \/ \E s \in Starts, ok \in BOOLEAN : StartAfterRefreshAuth(s, ok)
    \/ \E s \in Starts, ok \in BOOLEAN : StartAfterClientInitialize(s, ok)
    \/ \E s \in Starts, ok \in BOOLEAN : StartAfterStartChat(s, ok)
    \/ \E s \in Starts, ok \in BOOLEAN : StartAfterSetTools(s, ok)
    \/ stop
    \/ \E c \in Calls, onProgress \in BOOLEAN : sendPrompt(c, onProgress)
    \/ \E c \in Calls : Resume(c)
    \/ \E c \in Calls, e \in StreamEvents : StreamEvent(c, e)
    \/ \E c \in Calls : StreamClosed(c)
    \/ \E c \in Calls : StreamEnd(c)
    \/ \E c \in Calls, err \in RaisedErrors : StreamRaise(c, err)
    \/ \E c \in Calls : TimeoutFires(c)

Spec == Init /\ [][Next]_vars

\* Two sessions side by side.  The first session is started without failure
\* and without a system instruction, its callers pass no progress sink, and
\* its streams yield a content delta, a cancellation, or nothing.
TwoSessionEvents == {EvContent("a"), EvUserCancelled}

NextTwoSessions ==
    \/ \E s \in Starts : NoStartSuspended /\ StartCall(s, FALSE)
    \/ \E s \in Starts : StartAfterInitialize(s, TRUE)
    \/ \E s \in Starts : StartAfterRefreshAuth(s, TRUE)
    \/ \E s \in Starts : StartAfterClientInitialize(s, TRUE)
    \/ \E s \in Starts : StartAfterStartChat(s, TRUE)
    \/ \E s \in Starts : StartAfterSetTools(s, TRUE)
    \/ \E c \in Calls : sendPrompt(c, FALSE)
    \/ \E c \in Calls : Resume(c)
    \/ \E c \in Calls, e \in TwoSessionEvents : StreamEvent(c, e)
    \/ \E c \in Calls : StreamClosed(c)
    \/ \E c \in Calls : StreamEnd(c)
    \/ OtherSendPrompt
    \/ \E returns \in BOOLEAN : OtherEnds(returns)

SpecTwoSessions == Init /\ [][NextTwoSessions]_vars

(* ------------------------------ MCP server ------------------------------ *)
\* no step of the server touches the session controller modelled above
ControllerUnchanged ==
    UNCHANGED <<config, client, sessionState, pending, pendingResolve, settled,
                starter, frames, aborted, history, opened, sink, consumed,
                lastOp, stopped, activated, other, accessed, work>>

\* lines 68-162: the tools the server lists
ListedTools == {"gemini_plan", "gemini_analyze", "gemini_review"}

\* lines 288-454: the system instruction of a tool, by its first line; any
\* other name gets the empty instruction of the default case
getRoleInstruction(toolName) ==
    CASE toolName = "gemini_plan" ->
            "ROLE: Expert Planning Consultant & Systems Architect"
      [] toolName = "gemini_analyze" ->
            "ROLE: Senior Software Analyst & Technical Auditor"
      [] toolName = "gemini_review" ->
            "ROLE: Expert Code Reviewer"
      [] OTHER -> ""

\* A controller as the server sees it: "starting" while its start() is
\* suspended, "active" when start() has succeeded, "failed" when it has
\* thrown, "stopped" after stop(); pending is the invocation whose sendPrompt
\* made the promise held in _pending (gemini-session-manager.ts, line 138),
\* and lastActivity is the time at which start() succeeded (lines 104-109)
\* or, later, that of the last sendPrompt the controller admitted (lines
\* 146-148); before that the controller has no session state.
NewController(sessionId, name) ==
    [state |-> "starting", sessionId |-> sessionId,
     systemInstruction |-> getRoleInstruction(name), lastActivity |-> NoTime,
     pending |-> NoRequest]
ControllerActive(i) == controllers[i].state = "active"

\* the controllers the registry holds
Registered == {sessions[k] : k \in SessionKeys} \ {NoController}

\* lines 203-215: sendPrompt is called on the controller.  A controller that
\* is not active refuses the call (gemini-session-manager.ts, lines
\* 131-133); one whose token is taken makes it wait (lines 135-137); any
\* other admits it at once.
CallSendPrompt(req, ctrls) ==
    IF ctrls[req.sessionManager].state # "active"
    THEN [req EXCEPT !.pc = "sending", !.refused = TRUE]
    ELSE IF ctrls[req.sessionManager].pending # NoRequest
    THEN [req EXCEPT !.pc = "waiting"]
    ELSE [req EXCEPT !.pc = "sending"]
\* gemini-session-manager.ts, lines 138-148: a call that is admitted takes
\* the token and writes lastActivity; a call that is refused or waits
\* writes nothing
Touch(ctrls, i, r) ==
    IF ctrls[i].state = "active" /\ ctrls[i].pending = NoRequest
    THEN [ctrls EXCEPT ![i].pending = r, ![i].lastActivity = clock]
    ELSE ctrls

\* lines 167-215: the handler is invoked and runs to its first await
Invoke(r, name, args) ==
    /\ shutdown = "idle"
    /\ requests[r].pc = "idle"
    /\ \A q \in Requests : q < r => requests[q].pc # "idle"
    /\ LET req == [IdleRequest EXCEPT !.name = name, !.args = args]
           key == SessionKey(name, args)
       IN IF ~args.present
          THEN /\ requests' = [requests EXCEPT ![r] =
                     [req EXCEPT !.pc = "done",
                                 !.result = Raised("Missing tool arguments")]]
               /\ UNCHANGED <<sessions, controllers>>
          ELSE IF ValidationIssues(args) # ""
          THEN /\ requests' = [requests EXCEPT ![r] =
                     [req EXCEPT !.pc = "done",
                                 !.result = ErrorPayload("Invalid arguments: "
                                                \o ValidationIssues(args))]]
               /\ UNCHANGED <<sessions, controllers>>
          ELSE IF sessions[key] # NoController
          THEN /\ requests' = [requests EXCEPT ![r] =
                     CallSendPrompt([req EXCEPT !.sessionKey = key,
                                                !.sessionManager = sessions[key]],
                                    controllers)]
               /\ controllers' = Touch(controllers, sessions[key], r)
               /\ UNCHANGED sessions
          ELSE /\ controllers' = Append(controllers,
                                        NewController(UserSessionId(args), name))
               /\ requests' = [requests EXCEPT ![r] =
                     [req EXCEPT !.pc = "starting", !.sessionKey = key,
                                 !.sessionManager = Len(controllers) + 1,
                                 !.created = TRUE]]
               /\ UNCHANGED sessions
    /\ UNCHANGED <<shutdown, clock>>
    /\ ControllerUnchanged

StartError == "start failed"

\* a handler that registers nothing
RegisterNothing(key, i) == sessions
\* line 198: this.sessions.set(sessionKey, sessionManager), whatever the
\* registry holds under the key by now
Register(key, i) == [sessions EXCEPT ![key] = i]

\* lines 197-215 and 232-264: start() has settled; on success the controller
\* is registered and sendPrompt is called, on failure the catch block answers
StartSettles(r, ok) ==
    /\ shutdown = "idle"
    /\ requests[r].pc = "starting"
    /\ LET req == requests[r]
           i == req.sessionManager
       IN IF ok
          THEN LET ctrls == [controllers EXCEPT ![i].state = "active",
                                                ![i].lastActivity = clock]
               IN /\ sessions' = Register(req.sessionKey, i)
                  /\ controllers' = Touch(ctrls, i, r)
                  /\ requests' = [requests EXCEPT ![r] = CallSendPrompt(req, ctrls)]
          ELSE /\ controllers' = [controllers EXCEPT ![i].state = "failed"]
               /\ requests' = [requests EXCEPT ![r] =
                     [req EXCEPT !.pc = "done",
                                 !.result = CommunicationError(req.name, StartError)]]
               /\ UNCHANGED sessions
    /\ UNCHANGED <<shutdown, clock>>
    /\ ControllerUnchanged

UpstreamFailure == "API Error 503: boom"

\* the invocations that wait at line 136 of gemini-session-manager.ts for
\* the token of controller i
WaitingFor(i) ==
    {q \in Requests :
        requests[q].pc = "waiting" /\ requests[q].sessionManager = i}

\* lines 203-264: the sendPrompt of an invocation that was admitted or
\* refused has settled: with an answer (lines 216-231) or with an error
\* (lines 232-264).  A sendPrompt that returns releases the token
\* (gemini-session-manager.ts, lines 307-310 and 352-355), and the
\* invocations that waited for it are admitted in the same turn, one after
\* the other: each takes the token and writes lastActivity.  A sendPrompt
\* that throws leaves the token as it is (lines 321-331).
SendSettles(r, returns) ==
    /\ shutdown = "idle"
    /\ requests[r].pc = "sending"
    /\ returns => ~requests[r].refused
    /\ LET req == requests[r]
           i == req.sessionManager
           admitted == IF returns THEN WaitingFor(i) ELSE {}
           done == [req EXCEPT !.pc = "done",
                               !.result =
                       IF returns
                       THEN Success("answer", UserSessionId(req.args), req.name)
                       ELSE CommunicationError(req.name,
                               IF req.refused THEN SessionNotActiveErr.message
                               ELSE UpstreamFailure)]
       IN /\ requests' = [q \in Requests |->
                             IF q = r THEN done
                             ELSE IF q \in admitted
                             THEN [requests[q] EXCEPT !.pc = "sending"]
                             ELSE requests[q]]
          /\ controllers' =
                IF ~returns THEN controllers
                ELSE IF admitted = {}
                THEN [controllers EXCEPT ![i].pending = NoRequest]
                ELSE [controllers EXCEPT ![i].pending = MaxOf(admitted),
                                         ![i].lastActivity = clock]
    /\ UNCHANGED <<sessions, shutdown, clock>>
    /\ ControllerUnchanged

\* a cleanup() that calls no stop()
CleanupCallStopsNone ==
    /\ shutdown = "idle"
    /\ shutdown' = "awaiting"
    /\ UNCHANGED <<sessions, controllers, requests, clock>>
    /\ ControllerUnchanged

\* lines 477-482: cleanup() calls stop() on every registered controller and
\* awaits the promises; stop() does its work before it returns its promise
\* (gemini-session-manager.ts, lines 360-362)
CleanupCall ==
    /\ shutdown = "idle"
    /\ controllers' = [i \in 1..Len(controllers) |->
                          IF i \in Registered
                          THEN [controllers[i] EXCEPT !.state = "stopped"]
                          ELSE controllers[i]]
    /\ shutdown' = "awaiting"
    /\ UNCHANGED <<sessions, requests, clock>>
    /\ ControllerUnchanged

\* line 483: the promises are settled and the registry is cleared.  Between
\* CleanupCall and this step only the settling of the stop() promises runs;
\* the signal handlers of lines 274-282 then end the process.
CleanupResume ==
    /\ shutdown = "awaiting"
    /\ sessions' = [k \in SessionKeys |-> NoController]
    /\ shutdown' = "done"
    /\ UNCHANGED <<controllers, requests, clock>>
    /\ ControllerUnchanged

NextServer ==
    \/ \E r \in Requests, name \in ToolNames, args \in ArgChoices :
          Invoke(r, name, args)
    \/ \E r \in Requests, ok \in BOOLEAN : StartSettles(r, ok)
    \/ \E r \in Requests, returns \in BOOLEAN : SendSettles(r, returns)
    \/ CleanupCall
    \/ CleanupResume

SpecServer == Init /\ [][NextServer]_vars

\* Time.  The README promises that sessions are cleaned up after 30 minutes
\* of inactivity (src/README.md, line 128); one tick of the clock is a
\* quarter of an hour, so the period is two ticks.
InactivityPeriod == 2

\* the wall clock advances; nothing in mcp-server.ts or in
\* gemini-session-manager.ts is scheduled on it (there is no setTimeout or
\* setInterval over the registry, and lastActivity is written at lines 107
\* and 147 of gemini-session-manager.ts but read nowhere)
Tick ==
    /\ shutdown = "idle"
    /\ clock < MaxClock
    /\ clock' = clock + 1
    /\ UNCHANGED <<sessions, controllers, requests, shutdown>>
    /\ ControllerUnchanged

\* the invocations of the timed runs: valid prompts for one tool, with no
\* session id or with "b"
TimedArgChoices == {Args(TRUE, "hi", FALSE, ""), Args(TRUE, "hi", TRUE, "b")}

NextServerTimed ==
    \/ \E r \in Requests, args \in TimedArgChoices :
          Invoke(r, "gemini_plan", args)
    \/ \E r \in Requests, ok \in BOOLEAN : StartSettles(r, ok)
    \/ \E r \in Requests, returns \in BOOLEAN : SendSettles(r, returns)
    \/ Tick
    \/ CleanupCall
    \/ CleanupResume

\* Time passes and awaited promises settle; whether a client invokes a tool
\* and whether the process is signalled is up to the environment.
SpecServerTimed ==
    /\ Init /\ [][NextServerTimed]_vars
    /\ WF_vars(Tick)
    /\ \A r \in Requests :
          /\ WF_vars(\E ok \in BOOLEAN : StartSettles(r, ok))
          /\ WF_vars(\E returns \in BOOLEAN : SendSettles(r, returns))

(* ---------------------------- a failing sink --------------------------- *)
\* what a ProgressCallback (line 12) that fails throws out of onProgress?.()
SinkErr == Err("Error", "sink failed")

\* lines 171-298 with a sink that throws: the event's case does its work up
\* to its call of onProgress (a content delta is accumulated at line 178,
\* before the note of line 180) and the exception leaves the body of for
\* await; the catch block of lines 321-331 rethrows it once the stream is
\* closed (StreamClosed)
StreamEventSinkThrows(c, e) ==
    /\ InFlight(c)
    /\ frames[c].onProgress
    /\ Reduce(e, frames[c].accumulatedResponse).notes # <<>>
    /\ work < MaxWork
    /\ work' = work + 1
    /\ LET fr == frames[c]
           r == Reduce(e, fr.accumulatedResponse)
           h == [history[c] EXCEPT
                    !.events = @ + 1,
                    !.deltas =
                        IF e.type = "Content" THEN Append(@, e.value) ELSE @]
       IN /\ sink' = [call |-> c, notes |-> r.notes]
          /\ consumed' = [call |-> c, event |-> e]
          /\ frames' = [frames EXCEPT ![c] =
                ThrewInLoop([fr EXCEPT !.accumulatedResponse = r.acc], SinkErr)]
          /\ history' = [history EXCEPT ![c] =
                [h EXCEPT !.attempts = Append(@, AttemptEnd(h, "sink"))]]
    /\ KeepToken
    /\ UNCHANGED <<sessionState, aborted, opened>>
    /\ LifecycleUnchanged

\* the message handed to onProgress when a stream has ended (lines 304, 157
\* and 350)
EndNote(fr) ==
    IF HasContent(fr.accumulatedResponse)
    THEN "Complete (" \o ToString(Len(fr.accumulatedResponse))
             \o " chars, <elapsed>s)"
    ELSE IF LoopContinues(fr.attempt + 1)
    THEN "No content received, requesting continuation ("
             \o ToString(fr.attempt + 1) \o "/"
             \o ToString(maxContinuations) \o ")..."
    ELSE "Complete (no content after " \o ToString(maxContinuations)
             \o " retries, <elapsed>s)"

\* lines 304, 157 and 350 with a sink that throws: the stream has ended and
\* the message that reports it (complete, continuation, exhausted) is handed
\* to onProgress before anything else is done
StreamEndSinkThrows(c) ==
    /\ InFlight(c)
    /\ frames[c].onProgress
    /\ work < MaxWork
    /\ work' = work + 1
    /\ sink' = [call |-> c, notes |-> <<EndNote(frames[c])>>]
    /\ consumed' = NoEvent
    /\ frames' = [frames EXCEPT ![c] = Threw(frames[c], SinkErr)]
    /\ history' = [history EXCEPT ![c] =
          [@ EXCEPT !.attempts = Append(@, AttemptEnd(history[c], "sink"))]]
    /\ KeepToken
    /\ UNCHANGED <<sessionState, aborted, opened>>
    /\ LifecycleUnchanged

\* One session whose callers pass a sink that may fail.  The session is
\* started without failure; its streams yield a content delta, a turn-finished
\* notice, a cancellation, or nothing.
FailingSinkEvents == {EvContent("a"), EvFinished("STOP", FALSE, 0, 0), EvUserCancelled}

NextFailingSink ==
    \/ \E s \in Starts : NoStartSuspended /\ StartCall(s, FALSE)
    \/ \E s \in Starts : StartAfterInitialize(s, TRUE)
    \/ \E s \in Starts : StartAfterRefreshAuth(s, TRUE)
    \/ \E s \in Starts : StartAfterClientInitialize(s, TRUE)
    \/ \E s \in Starts : StartAfterStartChat(s, TRUE)
    \/ \E s \in Starts : StartAfterSetTools(s, TRUE)
    \/ \E c \in Calls, onProgress \in BOOLEAN : sendPrompt(c, onProgress)
    \/ \E c \in Calls : Resume(c)
    \/ \E c \in Calls, e \in FailingSinkEvents : StreamEvent(c, e)
    \/ \E c \in Calls : StreamClosed(c)
    \/ \E c \in Calls : StreamEnd(c)
    \/ \E c \in Calls, e \in FailingSinkEvents : StreamEventSinkThrows(c, e)
    \/ \E c \in Calls : StreamEndSinkThrows(c)

SpecFailingSink == Init /\ [][NextFailingSink]_vars

(* ------------------------------- claims --------------------------------- *)
InFlightCalls == {c \in Calls : InFlight(c) \/ Closing(c)}
Waiting(c) == frames[c].pc = "waiting"
\* position of call c in the order of first stream openings, 0 when it has none
RECURSIVE PosIn(_, _, _)
PosIn(seq, c, i) ==
    IF i > Len(seq) THEN 0 ELSE IF seq[i] = c THEN i ELSE PosIn(seq, c, i + 1)
OpenedAt(c) == PosIn(opened, c, 1)

\* C1: at most one submission of the session is between its admission and its
\* termination at any instant, whatever the number of concurrent callers.
C1_AtMostOneInFlight == Cardinality(InFlightCalls) <= 1

\* C2: the token a call registered is released on every exit path, so
\* whenever no submission is in flight the session's token is free.
C2_TokenFreeWhenIdle == (InFlightCalls = {}) => pending = NoCall

\* C3: no permanent deadlock: while a submission waits for admission, some
\* submission is still in flight (and will release the token when its stream
\* ends or fails) or some waiting submission's promise is already resolved.
C3_NoPermanentDeadlock ==
    \A c \in Calls :
        Waiting(c) =>
            \E d \in Calls :
                InFlight(d) \/ (Waiting(d) /\ frames[d].awaiting \in settled)

\* C4: submissions are admitted in arrival order: a call never opens its
\* first engine stream while a call that arrived earlier still waits for
\* admission, and first streams are opened in arrival order.
C4_FifoAdmission ==
    \A s1, s2 \in Calls :
        (s1 < s2 /\ OpenedAt(s2) # 0) =>
            /\ ~Waiting(s1)
            /\ OpenedAt(s1) # 0 => OpenedAt(s1) < OpenedAt(s2)

\* the concatenation of a sequence of texts, in order
RECURSIVE ConcatAll(_)
ConcatAll(texts) ==
    IF texts = <<>> THEN "" ELSE Head(texts) \o ConcatAll(Tail(texts))

Attempts(c) == history[c].attempts
EngineCalls(c) == history[c].engineCalls
\* attempt i of call c ran to the end of its stream
Completed(c, i) == Attempts(c)[i].end = "end"
\* the content of attempt i of call c
ContentOf(c, i) == ConcatAll(Attempts(c)[i].deltas)
ReturnedValue(c, value) ==
    frames[c].pc = "returned" /\ frames[c].returned = value

\* every attempt call c has finished ran to the end of its stream without content
AllAttemptsEmpty(c) ==
    /\ Attempts(c) # <<>>
    /\ \A i \in 1..Len(Attempts(c)) : Completed(c, i) /\ ContentOf(c, i) = ""

\* C5: a call all of whose attempts complete without content returns the
\* empty string after exactly 3 continuation attempts (4 engine calls) and
\* never raises: it goes on until the fourth attempt has ended and ends there.
C5_EmptyAfterThreeContinuations ==
    \A c \in Calls :
        AllAttemptsEmpty(c) =>
            /\ frames[c].pc # "threw"
            /\ Len(Attempts(c)) <= 4
            /\ Len(Attempts(c)) < 4 =>
                  InFlight(c) /\ Len(EngineCalls(c)) = Len(Attempts(c)) + 1
            /\ Len(Attempts(c)) = 4 =>
                  ReturnedValue(c, "") /\ Len(EngineCalls(c)) = 4

C5_Witness ==
    \E c \in Calls :
        /\ AllAttemptsEmpty(c)
        /\ ReturnedValue(c, "")
        /\ Len(EngineCalls(c)) = 4
        /\ \E i \in 1..4 : Attempts(c)[i].events > 0

\* C6 as claimed: an attempt that runs to the end of its stream with at least
\* one content delta makes the call return the concatenation of its deltas,
\* also when the deltas are empty strings.
C6_ReturnsAnyDeltas ==
    \A c \in Calls :
        \A i \in 1..Len(Attempts(c)) :
            (Completed(c, i) /\ Attempts(c)[i].deltas # <<>>) =>
                ReturnedValue(c, ContentOf(c, i))

\* C6 as amended: an attempt that runs to the end of its stream with at least
\* one non-empty content delta is the call's last attempt, and the call
\* returns exactly the concatenation of that attempt's deltas in emission
\* order, whatever other events the stream held.
C6_ReturnsConcatenation ==
    \A c \in Calls :
        \A i \in 1..Len(Attempts(c)) :
            (Completed(c, i) /\ \E k \in 1..Len(Attempts(c)[i].deltas) :
                                    Attempts(c)[i].deltas[k] # "") =>
                /\ i = Len(Attempts(c))
                /\ ReturnedValue(c, ContentOf(c, i))

\* two different deltas in one attempt, with another event in the same stream
C6_Witness ==
    \E c \in Calls :
        /\ Attempts(c) # <<>>
        /\ LET a == Attempts(c)[Len(Attempts(c))]
           IN /\ a.end = "end"
              /\ a.deltas = <<"a", "b">>
              /\ a.events > 2
        /\ ReturnedValue(c, "ab")

\* C7: an engine call after the first is made only after an attempt that ran
\* to the end of its stream with an empty answer, and at most 3 times; an
\* attempt that ends with a non-empty answer is followed by no engine call
\* and the call returns.
C7_ContinuationOnlyWhenEmpty ==
    \A c \in Calls :
        /\ Len(EngineCalls(c)) <= 4
        /\ \A i \in 2..Len(EngineCalls(c)) :
              /\ i - 1 <= Len(Attempts(c))
              /\ Completed(c, i - 1)
              /\ ContentOf(c, i - 1) = ""
              /\ EngineCalls(c)[i].text = ContinueText
        /\ \A i \in 1..Len(Attempts(c)) :
              (Completed(c, i) /\ ContentOf(c, i) # "") =>
                  /\ Len(EngineCalls(c)) = i
                  /\ frames[c].pc = "returned"

\* an empty first attempt, then a second attempt with content: one continuation
C7_Witness ==
    \E c \in Calls :
        /\ Len(Attempts(c)) = 2
        /\ Completed(c, 1) /\ ContentOf(c, 1) = ""
        /\ Completed(c, 2) /\ ContentOf(c, 2) # ""
        /\ Len(EngineCalls(c)) = 2
        /\ ReturnedValue(c, ContentOf(c, 2))

\* the message of the error the claim calls UpstreamError{status?, message}
UpstreamMessage(status, message) ==
    IF status = "" THEN message ELSE "API Error " \o status \o ": " \o message

\* the call that took the last event, when that event has type t
Took(c, t) == consumed.call = c /\ consumed.event.type = t

\* how the last finished attempt of call c ended ("" when none has finished)
LastEnd(c) ==
    IF Attempts(c) = <<>> THEN "" ELSE Attempts(c)[Len(Attempts(c))].end

\* call c has thrown: its exception is on its way to the caller (the stream
\* is being closed) or has reached the caller
Throwing(c) == Closing(c) \/ frames[c].pc = "threw"

\* C8: a fatal-error event ends the call at once: the call throws an error
\* that carries the event's status (when present) and message, and from
\* then on it takes no event, returns no content and makes no engine call:
\* the attempt is its last, and the error is the one its caller gets.
C8_FatalErrorAborts ==
    \A c \in Calls :
        /\ Took(c, "Error") =>
              /\ Closing(c)
              /\ frames[c].thrown.message =
                    UpstreamMessage(consumed.event.status,
                                    consumed.event.message)
              /\ LastEnd(c) = "Error"
        /\ LastEnd(c) = "Error" =>
              /\ Throwing(c)
              /\ frames[c].thrown.name = "Error"
              /\ frames[c].thrown.message \in
                    {UpstreamMessage(e.status, e.message) : e \in ErrorEvents}
              /\ frames[c].returned = ""
              /\ Len(EngineCalls(c)) = Len(Attempts(c))

\* a fatal error with a status, after content was accumulated
C8_Witness ==
    \E c \in Calls :
        /\ Took(c, "Error")
        /\ consumed.event.status = "503"
        /\ frames[c].accumulatedResponse # ""
        /\ frames[c].thrown.message = "API Error 503: boom"

\* C9: a user-cancelled event ends the call at once: the cancellation notice
\* is what the sink was handed, the call has thrown the cancellation error,
\* and no engine call follows, also when the answer is still empty.
C9_UserCancelledAborts ==
    \A c \in Calls :
        /\ Took(c, "UserCancelled") =>
              /\ Closing(c)
              /\ frames[c].onProgress =>
                    sink = [call |-> c, notes |-> <<"Cancelled by user">>]
              /\ LastEnd(c) = "UserCancelled"
        /\ LastEnd(c) = "UserCancelled" =>
              /\ Throwing(c)
              /\ frames[c].thrown = UserCancelledErr
              /\ frames[c].returned = ""
              /\ Len(EngineCalls(c)) = Len(Attempts(c))

\* cancelled with a sink and an empty answer, in a continuation attempt
C9_Witness ==
    \E c \in Calls :
        /\ Took(c, "UserCancelled")
        /\ frames[c].onProgress
        /\ frames[c].accumulatedResponse = ""
        /\ Len(EngineCalls(c)) > 1
        /\ sink.notes = <<"Cancelled by user">>

\* C10: a call makes one abort signal, and every engine call of the call,
\* original or continuation, is handed that signal.
C10_OneSharedBudget ==
    \A c \in Calls :
        /\ history[c].signals <= 1
        /\ EngineCalls(c) # <<>> => history[c].signals = 1
        /\ \A i \in 1..Len(EngineCalls(c)) :
              EngineCalls(c)[i].abortSignal = frames[c].abortSignal

\* a continuation attempt opened with the signal whose timeout has fired
C10_Witness ==
    \E c \in Calls :
        /\ Len(EngineCalls(c)) > 2
        /\ frames[c].abortSignal \in aborted
        /\ InFlight(c)

\* the timeout budget of call c is exceeded: the signal of line 141 has fired
BudgetExceeded(c) == frames[c].abortSignal \in aborted

\* call c, suspended at its stream, ends in this step
Ends(c) == InFlight(c) /\ frames'[c].pc # "streaming"

\* C11: a call that ends after its timeout budget was exceeded fails, and
\* the error it fails with is the timeout error: not the cancellation error,
\* not the error of a fatal-error event, and not a returned answer.
C11_TimeoutIsDistinct ==
    [][\A c \in Calls :
          (BudgetExceeded(c) /\ Ends(c)) =>
              /\ Throwing(c)'
              /\ frames'[c].thrown = TimeoutErr
              /\ frames'[c].thrown # UserCancelledErr
              /\ \A e \in ErrorEvents : frames'[c].thrown # UpstreamErr(e)]_vars

\* call c is made in this step
Called(c) == frames[c].pc = "idle" /\ frames'[c].pc # "idle"
\* call c, made in this step, is refused: it throws the not-active error, opens
\* no engine stream and leaves the pending-submission token as it was
Refused(c) ==
    /\ frames'[c].pc = "threw"
    /\ frames'[c].thrown = SessionNotActiveErr
    /\ history'[c] = NoHistory
    /\ UNCHANGED <<pending, pendingResolve, settled, opened>>

\* C12: a sendPrompt call made while the session is not active (never
\* started, start failed or still in progress, or stop() called since the last
\* start() began) is refused with the not-active error, opens no engine
\* stream and does not touch the pending-submission token.
C12_InactiveRefused ==
    [][\A c \in Calls : (Called(c) /\ ~activated) => Refused(c)]_vars

\* this step is a call of stop()
StopStep == lastOp' = "stop"

\* C13: stop() can be called in every lifecycle state and has no failing
\* outcome; when it returns the session is inactive and holds neither engine
\* handle nor configuration; a stop() right after a stop() changes nothing.
C13_StopIsSafe ==
    /\ [](work < MaxWork => ENABLED stop)
    /\ [][StopStep =>
            /\ ~isActive'
            /\ client' = Null /\ config' = Null
            /\ ~sessionState'.isActive
            /\ lastOp = "stop" => UNCHANGED <<config, client, sessionState>>]_vars

\* stop() called twice on a session that was never activated
C13_Witness ==
    /\ lastOp = "stop"
    /\ \A s \in Starts : starter[s] = IdleStarter
    /\ work >= 2

\* C14: a call that has opened its first engine stream is not interrupted by
\* stop(): whenever one of its attempts ends without content and a
\* continuation is due, the continuation stream is opened as it would be
\* without the stop(), so no continuation attempt ends for want of an engine
\* handle and the call never raises the null-dereference error.
C14_StopDoesNotInterrupt ==
    \A c \in Calls :
        EngineCalls(c) # <<>> =>
            /\ \A i \in 1..Len(Attempts(c)) : Attempts(c)[i].end # "nohandle"
            /\ frames[c].pc = "threw" => frames[c].thrown # NullDerefErr

\* this step is a call of start() (not the resumption of one)
StartCallStep == lastOp' = "start" /\ work' = work + 1

\* C15: start() called on an active session returns at once without error:
\* it enters none of its configuration, authentication or engine steps and
\* leaves configuration, engine handle and session state (creation and
\* last-activity timestamps, active flag) as they were.
C15_StartOnActiveIsNoop ==
    [][(StartCallStep /\ isActive) =>
            /\ \E s \in Starts :
                  /\ NextStart(s)
                  /\ starter'[s].pc = "idle"
                  /\ starter'[s].result = "noop"
                  /\ starter'[s].thrown = NoErr
            /\ \A s \in Starts : Suspended(s)' => Suspended(s)
            /\ UNCHANGED <<config, client, sessionState>>
            /\ isActive']_vars

\* start() was called on a session that had served a prompt since its start
C15_Witness ==
    /\ lastOp = "start"
    /\ \E s \in Starts : starter[s].result = "noop"
    /\ \A s \in Starts : ~Suspended(s)
    /\ isActive
    /\ sessionState.lastActivity # sessionState.createdAt

\* start() invocation s has failed and no start() has been called since
StartFailed(s) == ~Suspended(s) /\ starter[s].result = "threw"
\* this step is the one in which start() invocation s fails
StartFailsStep(s) == Suspended(s) /\ StartFailed(s)'

\* C16: the step in which a start() fails, in any of its steps, leaves the
\* session fully inactive (the active flag is off), and for as long as no
\* start() is called after the failure isActive() is false, neither engine
\* handle nor configuration is held, the caller has the error that made the
\* step fail, and a new start() can be called and begins a fresh activation.
C16_FailedStartLeavesInactive ==
    /\ [][\A s \in Starts :
            StartFailsStep(s) => ~sessionState'.isActive /\ ~isActive']_vars
    /\ [](\A s \in Starts :
            StartFailed(s) =>
                /\ ~isActive
                /\ client = Null /\ config = Null
                /\ starter[s].thrown \in {StartInitError, NullDerefErr,
                                          Err("Error", "Session not started")}
                /\ work < MaxWork =>
                      ENABLED (\E t \in Starts :
                                  /\ StartCall(t, FALSE)
                                  /\ starter'[t].pc = "initialize"
                                  /\ config' = Handle(t)))

\* a start() called while another was suspended has failed in one of its
\* steps, its cleanup() ran under the other, which failed on the null
\* configuration, with no stop() since the later call
C16_Witness ==
    /\ \E s, t \in Starts :
          /\ StartFailed(s) /\ starter[s].thrown = StartInitError
          /\ StartFailed(t) /\ starter[t].thrown = NullDerefErr
    /\ ~stopped
    /\ lastOp = "start"

\* C17: isActive() is true exactly when a start() has completed successfully
\* and no stop() was called since that start() began; it is not true while a
\* start() is in progress on an inactive session, nor after a stop() before a
\* new start() has succeeded.
C17_IsActiveIffActivated ==
    /\ isActive <=> activated
    /\ \A s \in Starts : Suspended(s) => ~isActive

\* C18: the first engine call of a sendPrompt call submits the caller's
\* prompt text, every later engine call of the call submits the fixed
\* directive "Continue.", and all engine calls of the call are made under
\* the one prompt identifier the call took at admission.
C18_PromptTextAndIdentifier ==
    \A c \in Calls :
        \A i \in 1..Len(EngineCalls(c)) :
            /\ i = 1 => EngineCalls(c)[i].text = OrigText(c)
            /\ i > 1 => EngineCalls(c)[i].text = "Continue."
            /\ EngineCalls(c)[i].promptId = frames[c].promptId
            /\ EngineCalls(c)[i].promptId = EngineCalls(c)[1].promptId

\* a call with its original attempt and two continuation attempts
C18_Witness ==
    \E c \in Calls :
        /\ Len(EngineCalls(c)) = 3
        /\ EngineCalls(c)[1].text = "prompt " \o ToString(c)
        /\ EngineCalls(c)[3].text = "Continue."
        /\ frames[c].promptId # ""

\* Events of every type with the payloads that take every branch of the
\* switch, and one event of a type the switch has no case for.
ReducerEvents ==
    StreamEvents \cup
    {EvThought("Plan", "read the files"), EvThought("", ""),
     EvToolCallRequest("grep", <<"pattern", "path">>, TRUE, "TODO"),
     EvToolCallRequest("grep", <<"limit">>, FALSE, ""),
     EvToolCallResponse(TRUE, "denied", "EACCES", "", -1),
     EvToolCallResponse(TRUE, "denied", "", "", -1),
     EvToolCallResponse(FALSE, "", "", "out.txt", -1),
     EvToolCallResponse(FALSE, "", "", "", 12),
     EvToolCallConfirmation("write", 2),
     EvFinished("STOP", TRUE, 3, 5), EvFinished("STOP", TRUE, 0, 5),
     EvFinished("MAX_TOKENS", FALSE, 0, 0), EvFinished("", FALSE, 0, 0),
     EvChatCompressed(TRUE, 8, 2, "COMPRESSED"),
     EvChatCompressed(TRUE, 8, 9, "COMPRESSION_FAILED_INFLATED_TOKEN_COUNT"),
     EvChatCompressed(TRUE, 8, 8, "COMPRESSION_FAILED_TOKEN_COUNT_ERROR"),
     EvChatCompressed(TRUE, 8, 8, "NOOP"),
     EvCitation(<<"Citations:", "a.ts", " ">>),
     [type |-> "InvalidStream"]}

AbortingTypes == {"Error", "UserCancelled"}

\* The reducer depends on its two arguments only, so its table is evaluated
\* once, in the initial state.
ReducerClassifies ==
    lastOp = "none" =>
        \A e \in ReducerEvents, acc \in {"", "a"} :
            LET r == Reduce(e, acc)
            IN /\ Len(r.notes) <= 1
               /\ r.thrown # NoErr <=> e.type \in AbortingTypes
               /\ r.acc = IF e.type = "Content" THEN acc \o e.value ELSE acc

\* C19: of all event types only a content delta changes the accumulated
\* answer (it appends its text), only a fatal error and a user cancellation
\* throw, every other event, turn-finished, loop-detected and
\* turn-limit-reached included, leaves the call consuming its stream, and
\* every event hands at most one message to the progress sink.
C19_EventClassification ==
    /\ ReducerClassifies
    /\ Len(sink.notes) <= 1
    /\ \A c \in Calls :
          consumed.call = c =>
              IF consumed.event.type \in AbortingTypes
              THEN Closing(c)
              ELSE /\ InFlight(c)
                   /\ frames[c].accumulatedResponse = ConcatAll(history[c].deltas)

\* the stream went on after a delta and two other events, the last of them
\* the turn-limit notice
C19_Witness ==
    \E c \in Calls :
        /\ Took(c, "MaxSessionTurns")
        /\ InFlight(c)
        /\ history[c].events >= 3
        /\ frames[c].accumulatedResponse # ""
        /\ frames[c].onProgress /\ Len(sink.notes) = 1

\* C20: the gate of a session looks at that session's token only.  A call
\* made on an active session whose own token is free is admitted at once,
\* whatever the state of the other session's token (held by a running
\* submission, or left behind by a failed one); the other session is
\* admitted whatever the state of this session's token; and no step of one
\* session changes the token of the other.
C20_AdmissionPerSession ==
    [][/\ \A c \in Calls :
            (Called(c) /\ isActive /\ pending = NoCall) =>
                /\ frames'[c].pc = "streaming"
                /\ pending' = c
                /\ other' = other
       /\ \A c \in Calls : Waiting(c)' => frames'[c].awaiting \in Calls
       /\ lastOp' = "other" =>
            UNCHANGED <<pending, pendingResolve, settled, frames, opened>>
       /\ lastOp' # "other" => other' = other]_vars

\* call 1 has just been admitted although the other session's token was left
\* behind by a failed submission
C20_Witness ==
    /\ other.pending /\ ~other.inFlight
    /\ lastOp = "sendPrompt"
    /\ InFlight(1) /\ frames[2].pc = "idle"
    /\ history[1].events = 0 /\ frames[1].attempt = 0

\* C21: the progress sink only observes.  A call ends the way the engine's
\* streams make it end, with a sink or without one, also when the sink
\* fails: no call raises the sink's error, and no attempt is cut short by
\* the sink.
C21_SinkIsObservational ==
    \A c \in Calls :
        /\ frames[c].pc = "threw" => frames[c].thrown # SinkErr
        /\ \A i \in 1..Len(Attempts(c)) : Attempts(c)[i].end # "sink"

\* invocation r has ended
Done(r) == requests[r].pc = "done"

\* C22: every tool invocation that has ended has produced a result: a success
\* result with text and the session id, tool and model as metadata, or an
\* error payload with isError true; none has ended with an error raised out
\* of the handler, whatever failed (missing arguments, validation,
\* activation, sendPrompt).
C22_EveryInvocationAnswers ==
    \A r \in Requests :
        Done(r) =>
            /\ requests[r].result.kind = "result"
            /\ ~requests[r].result.isError =>
                  /\ requests[r].result.session_id = UserSessionId(requests[r].args)
                  /\ requests[r].result.tool = requests[r].name
                  /\ requests[r].result.model = Model

\* invocation r has arrived with an arguments object whose prompt is empty
EmptyPrompt(r) ==
    /\ requests[r].pc # "idle"
    /\ requests[r].args.present
    /\ requests[r].args.prompt = ""

\* C23: an invocation whose arguments fail validation (an empty prompt) ends
\* at once with the invalid-arguments payload and does no session work: it
\* holds no controller, has created none and has called no sendPrompt, and
\* the controllers that exist and the registry entries all belong to other
\* invocations.
C23_InvalidArgumentsDoNoWork ==
    /\ \A r \in Requests :
          EmptyPrompt(r) =>
              /\ Done(r)
              /\ requests[r].result =
                     ErrorPayload("Invalid arguments: prompt: Prompt is required")
              /\ requests[r].sessionManager = NoController
              /\ ~requests[r].created
    /\ Len(controllers) =
          Cardinality({r \in Requests : requests[r].created /\ ~EmptyPrompt(r)})
    /\ Registered \subseteq
          {requests[r].sessionManager : r \in {q \in Requests : ~EmptyPrompt(q)}}

\* an empty prompt was refused while a session was registered
C23_Witness ==
    /\ EmptyPrompt(2) /\ Done(2)
    /\ requests[2].result.isError
    /\ Registered = {1}

\* invocation r has got hold of a controller
Served(r) == requests[r].sessionManager # NoController
\* the pair invocation r belongs to: its tool name and its caller's session
\* id, 'default' when none (or an empty one) was given
Pair(r) == <<requests[r].name, UserSessionId(requests[r].args)>>

\* C24: sessions are keyed by the pair of tool name and caller session id.
\* Invocations of different pairs never share a controller; an invocation
\* that did not create its controller found the one an earlier invocation of
\* the same pair had created; and the registry holds only controllers whose
\* start() has succeeded.
C24_KeyedByPair ==
    /\ \A r1, r2 \in Requests :
          (Served(r1) /\ Served(r2) /\ Pair(r1) # Pair(r2)) =>
              requests[r1].sessionManager # requests[r2].sessionManager
    /\ \A r \in Requests :
          (Served(r) /\ ~requests[r].created) =>
              \E q \in Requests :
                  /\ q < r /\ requests[q].created
                  /\ Pair(q) = Pair(r)
                  /\ requests[q].sessionManager = requests[r].sessionManager
    /\ \A i \in Registered : controllers[i].state \in {"active", "stopped"}

\* session key k holds a controller that has admitted no prompt for the
\* inactivity period, and the process is not shutting down
Expired(k) ==
    /\ shutdown = "idle"
    /\ sessions[k] # NoController
    /\ clock - controllers[sessions[k]].lastActivity >= InactivityPeriod

\* C25: a registered session that receives no prompt for the inactivity
\* period is eventually stopped and removed from the registry, without a
\* process shutdown.
C25_IdleSessionsExpire ==
    \A k \in SessionKeys :
        Expired(k) ~> (shutdown = "idle" /\ sessions[k] = NoController)

\* the step is a call of a history accessor
AccessorStep == lastOp' \in Accessors /\ work' = work + 1

\* C26: getHistory, setHistory and clearHistory fail with 'Session not
\* started' exactly when the controller holds no engine handle, and
\* otherwise pass the call to the engine; no call of an accessor changes the
\* lifecycle state of the session.
C26_AccessorsNeedHandle ==
    /\ [](lastOp \in Accessors =>
            /\ accessed.outcome = "threw" <=> client = Null
            /\ accessed.outcome = "passed" <=> client # Null
            /\ accessed.thrown =
                  IF client = Null THEN SessionNotStartedErr ELSE NoErr)
    /\ [][AccessorStep =>
            UNCHANGED <<config, client, sessionState, starter, stopped,
                        activated>>]_vars

\* an accessor is refused after a stop(), and the start() that stop() cut
\* short has failed
C26_Witness ==
    /\ lastOp \in Accessors
    /\ accessed.outcome = "threw"
    /\ stopped /\ \E s \in Starts : starter[s].result = "threw"

\* invocation r made a controller of its own
Created(r) == requests[r].created
\* invocation r made a controller and its start() has succeeded
Started(r) ==
    /\ Created(r)
    /\ requests[r].pc \in {"sending", "done"}
    /\ controllers[requests[r].sessionManager].state \in {"active", "stopped"}

\* C27: invocations that find their key absent each make and start a
\* controller of their own, also when they are for the same key; once such a
\* start() has succeeded, the registry holds under the key exactly one of the
\* controllers that were made and started for it.
C27_FirstUseRace ==
    /\ \A r1, r2 \in Requests :
          (r1 # r2 /\ Created(r1) /\ Created(r2)) =>
              requests[r1].sessionManager # requests[r2].sessionManager
    /\ \A r \in Requests :
          (Started(r) /\ shutdown # "done") =>
              \E q \in Requests :
                  /\ Started(q)
                  /\ requests[q].sessionKey = requests[r].sessionKey
                  /\ sessions[requests[r].sessionKey] = requests[q].sessionManager

\* two invocations for one new key have each started a controller, and the
\* registry holds the one of the invocation that came first (its start()
\* settled last)
C27_Witness ==
    /\ Started(1) /\ Started(2)
    /\ requests[1].sessionKey = requests[2].sessionKey
    /\ requests[1].sessionManager # requests[2].sessionManager
    /\ sessions[requests[1].sessionKey] = requests[1].sessionManager
    /\ Registered = {requests[1].sessionManager}

\* controller i has been stopped
Stopped(i) == controllers[i].state = "stopped"

\* C28: cleanup() stops every controller the registry holds and then empties
\* the registry: while it awaits the stop() promises every registered
\* controller is stopped, nothing changes a controller before it completes,
\* and when it has completed the registry is empty.
C28_CleanupStopsAndClears ==
    /\ [](shutdown = "awaiting" => \A i \in Registered : Stopped(i))
    /\ [][shutdown = "awaiting" =>
            /\ controllers' = controllers
            /\ shutdown' = "done" /\ Registered' = {}]_vars
    /\ [](shutdown = "done" => Registered = {})

\* cleanup() has completed after a first-use race: the registered controller
\* is stopped, the registry is empty, and the controller the race had
\* dropped from the registry is still active
C28_Witness ==
    /\ shutdown = "done"
    /\ Registered = {}
    /\ Len(controllers) = 2
    /\ Stopped(1) /\ controllers[2].state = "active"

\* call c opens an engine stream in this step
OpensStream(c) == Len(history'[c].engineCalls) > Len(history[c].engineCalls)

\* C29: once the timeout of a sendPrompt call has fired, the call opens no
\* new engine stream: no step opens a stream for a call whose abort signal
\* has been aborted.
C29_NoStreamAfterTimeout ==
    [][\A c \in Calls :
          OpensStream(c) => frames'[c].abortSignal \notin aborted]_vars

\* C30: the active flag of the session state is true only while the
\* controller holds both an engine handle and a configuration.
C30_ActiveFlagImpliesHandles ==
    (sessionState.present /\ sessionState.isActive) =>
        (client # Null /\ config # Null)

\* C31: the accumulated answer is empty at the start of every continuation
\* attempt: while a stream is open the buffer holds the deltas of the current
\* attempt and nothing else, every attempt before the last one ended without
\* content, and the value a call returns is the content of its last attempt.
C31_BufferHoldsOneAttempt ==
    \A c \in Calls :
        /\ InFlight(c) =>
              frames[c].accumulatedResponse = ConcatAll(history[c].deltas)
        /\ \A i \in 1..(Len(Attempts(c)) - 1) : ContentOf(c, i) = ""
        /\ frames[c].pc = "returned" =>
              /\ Attempts(c) # <<>>
              /\ frames[c].returned = ContentOf(c, Len(Attempts(c)))

\* a call returns the content of its second attempt after a first attempt
\* whose stream had yielded a delta (an empty one)
C31_Witness ==
    \E c \in Calls :
        /\ Len(Attempts(c)) = 2
        /\ Attempts(c)[1].deltas # <<>>
        /\ ContentOf(c, 2) # ""
        /\ ReturnedValue(c, ContentOf(c, 2))

\* call c went to open an engine stream (on admission after its wait, or for
\* a continuation) when stop() had released the engine handle
FoundNoHandle(c) ==
    \E i \in 1..Len(Attempts(c)) : Attempts(c)[i].end = "nohandle"

\* C32: a call whose session is stopped while it waits for admission, or
\* between two of its attempts, fails with the not-active error: a call that
\* finds the engine handle released has thrown 'Session not active' and
\* nothing else.
C32_StoppedCallFailsNotActive ==
    \A c \in Calls :
        FoundNoHandle(c) =>
            /\ frames[c].pc = "threw"
            /\ frames[c].thrown = SessionNotActiveErr

\* a call that waited for admission while stop() was called has thrown the
\* null-dereference error without any engine call
WaitingCallDereferences ==
    \E c \in Calls :
        /\ EngineCalls(c) = <<>>
        /\ FoundNoHandle(c)
        /\ frames[c].thrown = NullDerefErr

\* C33: an invocation that names a tool the server does not list never
\* creates or starts a session and never submits a prompt: it holds no
\* controller and is never suspended in start() or sendPrompt.
C33_UnlistedToolDoesNoWork ==
    \A r \in Requests :
        (requests[r].pc # "idle" /\ requests[r].name \notin ListedTools) =>
            /\ ~Created(r)
            /\ ~Served(r)
            /\ requests[r].pc = "done"

====
